---- MODULE Spec2Model ----
(***************************************************************************)
(* A model of the resolution functions of bevy-ui-gradients (src/lib.rs):  *)
(* Position::resolve, RadialGradientShape::resolve, Gradient::is_empty,    *)
(* Gradient::get_single, and the stop normalisation of the renderer.       *)
(*                                                                         *)
(* Every function is pure.  A behaviour is one call: the initial state     *)
(* draws the arguments, the action applies the function and stores what it *)
(* returns in ret.                                                         *)
(*                                                                         *)
(* Numbers.  f32 values are modelled by integers, on inputs for which      *)
(* every product and quotient the code forms is exact:                     *)
(*   - an anchor component is held in halves (1 stands for 0.5);           *)
(*   - a physical size is an even number of pixels, so that both           *)
(*     size * anchor and 0.5 * size are whole;                             *)
(*   - a percentage is a multiple of 50, so that size * v / 100 is whole.  *)
(* NaN and the infinities are not modelled.                                *)
(***************************************************************************)
EXTENDS Integers, Sequences, FiniteSets

VARIABLES
    fn,                     \* the function this behaviour calls
    pc,                     \* "call" before the function runs, "done" after
    self,                   \* the receiver: a Position, a shape or a Gradient
    position,               \* RadialGradientShape::resolve: the gradient's centre
    scale_factor,
    physical_size,
    physical_target_size,
    stops,                  \* the stop list handed to the normaliser
    extent,                 \* the gradient's total extent (line length, or TAU)
    ret                     \* what the call returned

vars == <<fn, pc, self, position, scale_factor, physical_size,
          physical_target_size, stops, extent, ret>>

----------------------------------------------------------------------------
(* Bounds of the model *)

MaxHalf == 2        \* physical sizes are 0, 2, .., 2 * MaxHalf pixels
MaxScale == 2       \* scale factors are 1 .. MaxScale
MaxTarget == 1      \* target (viewport) sizes are 0 .. MaxTarget per axis
MaxPx == 1          \* Val::Px values are -MaxPx .. MaxPx
MaxPctSteps == 2    \* Val::Percent values are 0, 50, .., 50 * MaxPctSteps
MaxAnchor == 1      \* anchor components are -MaxAnchor .. MaxAnchor halves
MaxCenter == 2      \* gradient centres are -MaxCenter .. MaxCenter per axis
MaxLen == 4         \* stop lists hold at most MaxLen stops
MaxColors == 2      \* colours are 1 .. MaxColors
MaxPos == 2         \* explicit stop positions are -1 .. MaxPos grid units

----------------------------------------------------------------------------
(* Values *)

Vec2(a, b) == [x |-> a, y |-> b]

Vec2_splat(v) == Vec2(v, v)

None == [some |-> FALSE]

Some(v) == [some |-> TRUE, v |-> v]

unwrap_or(o, dflt) == IF o.some THEN o.v ELSE dflt

abs(a) == IF a < 0 THEN -a ELSE a

min(a, b) == IF a < b THEN a ELSE b

max(a, b) == IF a > b THEN a ELSE b

Auto == [kind |-> "Auto"]

Px(v) == [kind |-> "Px", v |-> v]

Percent(v) == [kind |-> "Percent", v |-> v]

ZERO == Px(0)

\* The lengths a call may be handed.
Vals == {Auto} \cup {Px(v) : v \in -MaxPx..MaxPx}
               \cup {Percent(50 * k) : k \in 0..MaxPctSteps}

Sizes == {Vec2(2 * w, 2 * h) : w \in 0..MaxHalf, h \in 0..MaxHalf}

Targets == {Vec2(w, h) : w \in 0..MaxTarget, h \in 0..MaxTarget}

ScaleFactors == 1..MaxScale

Anchors == {Vec2(a, b) : a \in -MaxAnchor..MaxAnchor, b \in -MaxAnchor..MaxAnchor}

Positions == [anchor : Anchors, x : Vals, y : Vals]

NoRet == [none |-> TRUE]

----------------------------------------------------------------------------
(* Lengths *)

\* A mutant: the scale factor is dropped.
scale_val_unscaled(val, sf) == val

scale_val(val, sf) ==
    IF val.kind = "Px" THEN Px(val.v * sf) ELSE val

\* Val::resolve of the UI library: a pixel value as it is, a percentage of
\* the base value, nothing for Auto.
Val_resolve(val, physical_base_value, target_size) ==
    CASE val.kind = "Px" -> Some(val.v)
      [] val.kind = "Percent" -> Some((physical_base_value * val.v) \div 100)
      [] OTHER -> None

----------------------------------------------------------------------------
(* Position::resolve *)

\* A mutant: an anchor component of 0 counts as positive.
offset_direction_nonneg(p) == IF 0 <= p THEN -1 ELSE 1

offset_direction(p) == IF 0 < p THEN -1 ELSE 1

\* A mutant: the anchor is taken from the top-left corner instead of the centre.
Position_resolve_corner(p, sf, size, target) ==
    Vec2( (size.x * (p.anchor.x + 1)) \div 2
            + offset_direction(p.anchor.x)
                * unwrap_or(Val_resolve(scale_val(p.x, sf), size.x, target), 0),
          (size.y * (p.anchor.y + 1)) \div 2
            + offset_direction(p.anchor.y)
                * unwrap_or(Val_resolve(scale_val(p.y, sf), size.y, target), 0) )

\* A mutant: both offsets are resolved against the width.
Position_resolve_width(p, sf, size, target) ==
    Vec2( (size.x * p.anchor.x) \div 2
            + offset_direction(p.anchor.x)
                * unwrap_or(Val_resolve(scale_val(p.x, sf), size.x, target), 0),
          (size.y * p.anchor.y) \div 2
            + offset_direction(p.anchor.y)
                * unwrap_or(Val_resolve(scale_val(p.y, sf), size.x, target), 0) )

\* p.anchor is in halves, so physical_size * anchor is (size * anchor) / 2.
Position_resolve(p, sf, size, target) ==
    Vec2( (size.x * p.anchor.x) \div 2
            + offset_direction(p.anchor.x)
                * unwrap_or(Val_resolve(scale_val(p.x, sf), size.x, target), 0),
          (size.y * p.anchor.y) \div 2
            + offset_direction(p.anchor.y)
                * unwrap_or(Val_resolve(scale_val(p.y, sf), size.y, target), 0) )

InitPosition ==
    /\ fn = "Position::resolve"
    /\ pc = "call"
    /\ self \in Positions
    /\ scale_factor \in ScaleFactors
    /\ physical_size \in Sizes
    /\ physical_target_size \in Targets
    /\ position = Vec2(0, 0)
    /\ stops = <<>>
    /\ extent = 0
    /\ ret = NoRet

CallPositionResolve ==
    /\ fn = "Position::resolve"
    /\ pc = "call"
    /\ pc' = "done"
    /\ ret' = Position_resolve(self, scale_factor, physical_size, physical_target_size)
    /\ UNCHANGED <<fn, self, position, scale_factor, physical_size,
                   physical_target_size, stops, extent>>

----------------------------------------------------------------------------
(* RadialGradientShape::resolve *)

ClosestSide == [shape |-> "ClosestSide"]

FarthestSide == [shape |-> "FarthestSide"]

ClosestCorner == [shape |-> "ClosestCorner"]

FarthestCorner == [shape |-> "FarthestCorner"]

Circle(radius) == [shape |-> "Circle", radius |-> radius]

Ellipse(rx, ry) == [shape |-> "Ellipse", x |-> rx, y |-> ry]

ImplicitShapes == {ClosestSide, FarthestSide, ClosestCorner, FarthestCorner}

Shapes == ImplicitShapes \cup {Circle(r) : r \in Vals}
                         \cup {Ellipse(rx, ry) : rx \in Vals, ry \in Vals}

Centers == {Vec2(a, b) : a \in -MaxCenter..MaxCenter, b \in -MaxCenter..MaxCenter}

\* A mutant: the half extent less the distance from the middle, which is
\* negative for a centre outside the element.
close_side_inside(p, h) == h - abs(p)

close_side(p, h) == min(abs(-h - p), abs(h - p))

far_side(p, h) == max(abs(-h - p), abs(h - p))

\* A mutant: the vertical sides are left out.
close_side2_x(p, h) == close_side(p.x, h.x)

close_side2(p, h) == min(close_side(p.x, h.x), close_side(p.y, h.y))

\* A mutant: the closer of the two farthest sides.
far_side2_min(p, h) == min(far_side(p.x, h.x), far_side(p.y, h.y))

far_side2(p, h) == max(far_side(p.x, h.x), far_side(p.y, h.y))

\* 0.5 * physical_size; sizes are even.
half_size(size) == Vec2(size.x \div 2, size.y \div 2)

\* A mutant: the corner shapes are circles too, both radii being the x one.
RadialGradientShape_resolve_circle(s, p, sf, size, target) ==
    CASE s.shape = "ClosestSide" -> Vec2_splat(close_side2(p, half_size(size)))
      [] s.shape = "FarthestSide" -> Vec2_splat(far_side2(p, half_size(size)))
      [] s.shape = "ClosestCorner" -> Vec2_splat(close_side(p.x, half_size(size).x))
      [] s.shape = "FarthestCorner" -> Vec2_splat(far_side(p.x, half_size(size).x))
      [] s.shape = "Circle" ->
            Vec2_splat(unwrap_or(Val_resolve(scale_val(s.radius, sf), size.x, target), 0))
      [] s.shape = "Ellipse" ->
            Vec2(unwrap_or(Val_resolve(scale_val(s.x, sf), size.x, target), 0),
                 unwrap_or(Val_resolve(scale_val(s.y, sf), size.y, target), 0))

\* A mutant: a circle's radius is resolved against the smaller side of the
\* element.
RadialGradientShape_resolve_min_side(s, p, sf, size, target) ==
    CASE s.shape = "ClosestSide" -> Vec2_splat(close_side2(p, half_size(size)))
      [] s.shape = "FarthestSide" -> Vec2_splat(far_side2(p, half_size(size)))
      [] s.shape = "ClosestCorner" ->
            Vec2(close_side(p.x, half_size(size).x), close_side(p.y, half_size(size).y))
      [] s.shape = "FarthestCorner" ->
            Vec2(far_side(p.x, half_size(size).x), far_side(p.y, half_size(size).y))
      [] s.shape = "Circle" ->
            Vec2_splat(unwrap_or(Val_resolve(scale_val(s.radius, sf),
                                             min(size.x, size.y), target), 0))
      [] s.shape = "Ellipse" ->
            Vec2(unwrap_or(Val_resolve(scale_val(s.x, sf), size.x, target), 0),
                 unwrap_or(Val_resolve(scale_val(s.y, sf), size.y, target), 0))

RadialGradientShape_resolve(s, p, sf, size, target) ==
    CASE s.shape = "ClosestSide" -> Vec2_splat(close_side2(p, half_size(size)))
      [] s.shape = "FarthestSide" -> Vec2_splat(far_side2(p, half_size(size)))
      [] s.shape = "ClosestCorner" ->
            Vec2(close_side(p.x, half_size(size).x), close_side(p.y, half_size(size).y))
      [] s.shape = "FarthestCorner" ->
            Vec2(far_side(p.x, half_size(size).x), far_side(p.y, half_size(size).y))
      [] s.shape = "Circle" ->
            Vec2_splat(unwrap_or(Val_resolve(scale_val(s.radius, sf), size.x, target), 0))
      [] s.shape = "Ellipse" ->
            Vec2(unwrap_or(Val_resolve(scale_val(s.x, sf), size.x, target), 0),
                 unwrap_or(Val_resolve(scale_val(s.y, sf), size.y, target), 0))

InitShape ==
    /\ fn = "RadialGradientShape::resolve"
    /\ pc = "call"
    /\ self \in Shapes
    /\ position \in Centers
    /\ scale_factor \in ScaleFactors
    /\ physical_size \in Sizes
    /\ physical_target_size \in Targets
    /\ stops = <<>>
    /\ extent = 0
    /\ ret = NoRet

CallShapeResolve ==
    /\ fn = "RadialGradientShape::resolve"
    /\ pc = "call"
    /\ pc' = "done"
    /\ ret' = RadialGradientShape_resolve(self, position, scale_factor,
                                          physical_size, physical_target_size)
    /\ UNCHANGED <<fn, self, position, scale_factor, physical_size,
                   physical_target_size, stops, extent>>

----------------------------------------------------------------------------
(* Gradient::is_empty and Gradient::get_single *)

\* The hint of a stop takes no part in what is modelled and is left out.
ColorStop(color, point) == [color |-> color, point |-> point]

AngularColorStop(color, angle) == [color |-> color, angle |-> angle]

Colors == 1..MaxColors

ColorStops == {ColorStop(c, p) : c \in Colors, p \in {Auto, ZERO}}

AngularColorStops == {AngularColorStop(c, a) : c \in Colors, a \in {None, Some(0)}}

SeqsUpTo(S, n) == UNION {[1..k -> S] : k \in 0..n}

CENTER == [anchor |-> Vec2(0, 0), x |-> ZERO, y |-> ZERO]

LinearGradient(angle, ss) == [variant |-> "Linear", angle |-> angle, stops |-> ss]

RadialGradient(p, shape, ss) ==
    [variant |-> "Radial", position |-> p, shape |-> shape, stops |-> ss]

ConicGradient(p, ss) == [variant |-> "Conic", position |-> p, stops |-> ss]

Gradients ==
    {LinearGradient(0, ss) : ss \in SeqsUpTo(ColorStops, MaxLen)}
    \cup {RadialGradient(CENTER, ClosestCorner, ss) : ss \in SeqsUpTo(ColorStops, MaxLen)}
    \cup {ConicGradient(CENTER, ss) : ss \in SeqsUpTo(AngularColorStops, MaxLen)}

first(s) == IF Len(s) = 0 THEN None ELSE Some(s[1])

Gradient_is_empty(g) ==
    CASE g.variant = "Linear" -> Len(g.stops) = 0
      [] g.variant = "Radial" -> Len(g.stops) = 0
      [] g.variant = "Conic" -> Len(g.stops) = 0

\* A mutant: the length of the list is not looked at.
Gradient_get_single_first(g) ==
    IF first(g.stops).some THEN Some(first(g.stops).v.color) ELSE None

\* first().and_then(|stop| (len == 1).then_some(stop.color))
Gradient_get_single(g) ==
    CASE g.variant = "Linear" ->
            IF first(g.stops).some /\ Len(g.stops) = 1
            THEN Some(first(g.stops).v.color) ELSE None
      [] g.variant = "Radial" ->
            IF first(g.stops).some /\ Len(g.stops) = 1
            THEN Some(first(g.stops).v.color) ELSE None
      [] g.variant = "Conic" ->
            IF first(g.stops).some /\ Len(g.stops) = 1
            THEN Some(first(g.stops).v.color) ELSE None

InitGradient ==
    /\ fn \in {"Gradient::is_empty", "Gradient::get_single"}
    /\ pc = "call"
    /\ self \in Gradients
    /\ position = Vec2(0, 0)
    /\ scale_factor = 1
    /\ physical_size = Vec2(0, 0)
    /\ physical_target_size = Vec2(0, 0)
    /\ stops = <<>>
    /\ extent = 0
    /\ ret = NoRet

CallIsEmpty ==
    /\ fn = "Gradient::is_empty"
    /\ pc = "call"
    /\ pc' = "done"
    /\ ret' = Gradient_is_empty(self)
    /\ UNCHANGED <<fn, self, position, scale_factor, physical_size,
                   physical_target_size, stops, extent>>

CallGetSingle ==
    /\ fn = "Gradient::get_single"
    /\ pc = "call"
    /\ pc' = "done"
    /\ ret' = Gradient_get_single(self)
    /\ UNCHANGED <<fn, self, position, scale_factor, physical_size,
                   physical_target_size, stops, extent>>

----------------------------------------------------------------------------
(* The stop normaliser (the renderer's; modelled from section 4.3)          *)
(*                                                                         *)
(* A stop is a colour and a position along the gradient: Some(p) when it   *)
(* is explicit, None when it is automatic.  For a linear or radial         *)
(* gradient p is a resolved distance and extent the length of the gradient *)
(* line; for a conic gradient p is an angle and extent is TAU.             *)
(* Positions are whole multiples of Unit = MaxLen!, so that every          *)
(* quotient (p_hi - p_lo) * (k + 1) / (n + 1) is exact.                     *)

RECURSIVE Fact(_)
Fact(n) == IF n <= 1 THEN 1 ELSE n * Fact(n - 1)

Unit == Fact(MaxLen)

Stop(color, p) == [color |-> color, position |-> p]

StopPositions == {None} \cup {Some(k * Unit) : k \in -1..MaxPos}

Extents == {k * Unit : k \in 0..MaxPos}

\* Stop lists of every length up to MaxLen; the colours follow the index.
StopLists ==
    { [i \in 1..Len(ps) |-> Stop(((i - 1) % MaxColors) + 1, ps[i])] :
        ps \in SeqsUpTo(StopPositions, MaxLen) }

\* Rules 1 and 2: an automatic first stop is at 0, an automatic last stop at
\* the gradient's extent.
AssignEnds(ps, ext) ==
    LET a == IF Len(ps) > 0 /\ ~ps[1].some THEN [ps EXCEPT ![1] = Some(0)] ELSE ps
    IN  IF Len(a) > 0 /\ ~a[Len(a)].some THEN [a EXCEPT ![Len(a)] = Some(ext)] ELSE a

\* The first index from i on that holds a known position.
RECURSIVE NextKnown(_, _)
NextKnown(ps, i) == IF ps[i].some THEN i ELSE NextKnown(ps, i + 1)

\* A mutant: the run starts on its lower end instead of one step above it.
RECURSIVE InterpolateRuns_from_lo(_, _)
InterpolateRuns_from_lo(ps, i) ==
    IF i > Len(ps) THEN ps
    ELSE IF ps[i].some THEN InterpolateRuns_from_lo(ps, i + 1)
    ELSE LET lo == i - 1
             hi == NextKnown(ps, i)
             n == hi - lo - 1
             filled == [j \in 1..Len(ps) |->
                          IF lo < j /\ j < hi
                          THEN Some(ps[lo].v + ((ps[hi].v - ps[lo].v) * (j - lo - 1)) \div (n + 1))
                          ELSE ps[j]]
         IN  InterpolateRuns_from_lo(filled, hi + 1)

\* Rule 3, left to right from stop i: the n automatic stops of a run between
\* the known positions at lo and hi are spaced evenly, the k-th (from 0) at
\* p_lo + (p_hi - p_lo) * (k + 1) / (n + 1).
RECURSIVE InterpolateRuns(_, _)
InterpolateRuns(ps, i) ==
    IF i > Len(ps) THEN ps
    ELSE IF ps[i].some THEN InterpolateRuns(ps, i + 1)
    ELSE LET lo == i - 1
             hi == NextKnown(ps, i)
             n == hi - lo - 1
             filled == [j \in 1..Len(ps) |->
                          IF lo < j /\ j < hi
                          THEN Some(ps[lo].v + ((ps[hi].v - ps[lo].v) * (j - lo)) \div (n + 1))
                          ELSE ps[j]]
         IN  InterpolateRuns(filled, hi + 1)

\* A mutant: the positions are left as they were assigned.
EnforceMonotonic_off(ps, i) == ps

\* Rule 4, left to right from stop i: a position below the previous stop's
\* resolved position is raised to it.
RECURSIVE EnforceMonotonic(_, _)
EnforceMonotonic(ps, i) ==
    IF i > Len(ps) THEN ps
    ELSE EnforceMonotonic(
            IF ps[i].v < ps[i - 1].v THEN [ps EXCEPT ![i] = ps[i - 1]] ELSE ps,
            i + 1)

\* The positions after rules 1 to 3.
AssignPositions(ss, ext) ==
    InterpolateRuns(AssignEnds([i \in 1..Len(ss) |-> ss[i].position], ext), 2)

Normalize(ss, ext) ==
    LET ps == EnforceMonotonic(AssignPositions(ss, ext), 2)
    IN  [i \in 1..Len(ss) |-> Stop(ss[i].color, ps[i].v)]

InitNormalize ==
    /\ fn = "normalize"
    /\ pc = "call"
    /\ stops \in StopLists
    /\ extent \in Extents
    /\ self = NoRet
    /\ position = Vec2(0, 0)
    /\ scale_factor = 1
    /\ physical_size = Vec2(0, 0)
    /\ physical_target_size = Vec2(0, 0)
    /\ ret = NoRet

CallNormalize ==
    /\ fn = "normalize"
    /\ pc = "call"
    /\ pc' = "done"
    /\ ret' = Normalize(stops, extent)
    /\ UNCHANGED <<fn, self, position, scale_factor, physical_size,
                   physical_target_size, stops, extent>>

----------------------------------------------------------------------------
(* The specification *)

Init == InitPosition \/ InitShape \/ InitGradient \/ InitNormalize

Next ==
    \/ CallPositionResolve
    \/ CallShapeResolve
    \/ CallIsEmpty
    \/ CallGetSingle
    \/ CallNormalize

Spec == Init /\ [][Next]_vars

----------------------------------------------------------------------------
(* Claims *)

Returned(f) == fn = f /\ pc = "done"

\* The direction the specification gives an offset: against the anchor's side.
Dir(a) == IF a > 0 THEN -1 ELSE 1

PresetAnchors == {-1, 0, 1}

IsZeroVal(val) == val.kind \in {"Px", "Percent"} /\ val.v = 0

\* C1: on each axis, for the same centre and size, the radius of ClosestSide
\* is at most that of ClosestCorner, which is at most that of FarthestCorner,
\* which is at most that of FarthestSide.
C1_ShapeOrder ==
    (Returned("RadialGradientShape::resolve") /\ self \in ImplicitShapes) =>
        LET r(s) == RadialGradientShape_resolve(s, position, scale_factor,
                                                physical_size, physical_target_size)
        IN  /\ ret = r(self)
            /\ r(ClosestSide).x <= r(ClosestCorner).x
            /\ r(ClosestCorner).x <= r(FarthestCorner).x
            /\ r(FarthestCorner).x <= r(FarthestSide).x
            /\ r(ClosestSide).y <= r(ClosestCorner).y
            /\ r(ClosestCorner).y <= r(FarthestCorner).y
            /\ r(FarthestCorner).y <= r(FarthestSide).y

\* An off-centre gradient in a 4 x 2 element, where the four shapes differ.
C1_Witness ==
    /\ Returned("RadialGradientShape::resolve")
    /\ self = FarthestCorner
    /\ position = Vec2(1, 0)
    /\ physical_size = Vec2(4, 2)
    /\ ret = Vec2(3, 1)
    /\ RadialGradientShape_resolve(ClosestSide, position, scale_factor,
                                   physical_size, physical_target_size) = Vec2(1, 1)

\* C2: with a preset anchor component (-0.5, 0 or 0.5) and a zero offset on
\* an axis, Position::resolve returns exactly physical_size * anchor on that
\* axis, whatever the scale factor, the size and the target size.
C2_AnchorOnly ==
    Returned("Position::resolve") =>
        /\ (self.anchor.x \in PresetAnchors /\ IsZeroVal(self.x))
              => 2 * ret.x = physical_size.x * self.anchor.x
        /\ (self.anchor.y \in PresetAnchors /\ IsZeroVal(self.y))
              => 2 * ret.y = physical_size.y * self.anchor.y

\* BOTTOM_LEFT, with anchor (-0.5, 0.5), in a 4 x 2 element at scale 2.
C2_Witness ==
    /\ Returned("Position::resolve")
    /\ self = [anchor |-> Vec2(-1, 1), x |-> ZERO, y |-> ZERO]
    /\ physical_size = Vec2(4, 2)
    /\ scale_factor = 2
    /\ physical_target_size = Vec2(1, 0)
    /\ ret = Vec2(-2, 1)

\* The offset Position::resolve added to the anchor's contribution, doubled.
Offset2(r, size, a) == 2 * r - size * a

Resolved(val, base) ==
    unwrap_or(Val_resolve(scale_val(val, scale_factor), base, physical_target_size), 0)

OffsetSign(r, size, a, val) ==
    /\ a > 0 => Offset2(r, size, a) = -2 * Resolved(val, size)
    /\ a <= 0 => Offset2(r, size, a) = 2 * Resolved(val, size)
    /\ (val.kind = "Px" /\ val.v > 0 /\ scale_factor > 0) =>
          /\ a > 0 => 2 * r < size * a
          /\ a <= 0 => 2 * r > size * a

\* C3: on each axis the resolved offset is subtracted from the anchor's
\* contribution when the anchor component is greater than 0 and added
\* otherwise; so a positive pixel offset gives a coordinate strictly below
\* the anchor-only one for an anchor of 0.5, strictly above it for -0.5 and 0.
C3_OffsetDirection ==
    Returned("Position::resolve") =>
        /\ OffsetSign(ret.x, physical_size.x, self.anchor.x, self.x)
        /\ OffsetSign(ret.y, physical_size.y, self.anchor.y, self.y)

\* A pixel offset of 1 at scale 2: pulled in from the right edge (x), and
\* pushed away from the centre line (y).
C3_Witness ==
    /\ Returned("Position::resolve")
    /\ self = [anchor |-> Vec2(1, 0), x |-> Px(1), y |-> Px(1)]
    /\ scale_factor = 2
    /\ physical_size = Vec2(4, 4)
    /\ ret = Vec2(0, 2)

\* C4: for each variant, is_empty is true exactly when the stop list is
\* empty, and get_single returns the colour of the sole stop exactly when
\* the list holds one stop, and nothing otherwise.
C4_EmptyAndSingle ==
    /\ Returned("Gradient::is_empty") => (ret = TRUE <=> Len(self.stops) = 0)
    /\ Returned("Gradient::get_single") =>
          /\ ret.some <=> Len(self.stops) = 1
          /\ Len(self.stops) = 1 => ret = Some(self.stops[1].color)
          /\ Len(self.stops) # 1 => ret = None

\* get_single on a conic gradient of two stops returns nothing.
C4_Witness ==
    /\ Returned("Gradient::get_single")
    /\ self.variant = "Conic"
    /\ Len(self.stops) = 2
    /\ ret = None

\* The positions the stops are given before the monotonic pass.
Assigned == AssignPositions(stops, extent)

\* C5: the normalised positions never decrease from one stop to the next,
\* for every stop list (explicit stops out of order included): a stop whose
\* assigned position is below the resolved position of the stop before it
\* is raised to that position, and every other stop keeps its own.
C5_Monotonic ==
    Returned("normalize") =>
        /\ Len(ret) = Len(stops)
        /\ \A i \in 1..Len(ret) - 1 : ret[i].position <= ret[i + 1].position
        /\ Len(ret) > 0 => ret[1].position = Assigned[1].v
        /\ \A i \in 2..Len(ret) :
              ret[i].position = IF Assigned[i].v < ret[i - 1].position
                                THEN ret[i - 1].position
                                ELSE Assigned[i].v

\* Explicit stops given out of order: 2, automatic, 0 (in grid units).
C5_Witness ==
    /\ Returned("normalize")
    /\ Len(stops) = 3
    /\ stops[1].position = Some(2 * Unit)
    /\ stops[2].position = None
    /\ stops[3].position = Some(0)
    /\ \A i \in 1..3 : ret[i].position = 2 * Unit

\* The known positions: the explicit ones, and those of rules 1 and 2.
Known == AssignEnds([i \in 1..Len(stops) |-> stops[i].position], extent)

IsAuto(i) == i \in 1..Len(stops) /\ ~Known[i].some

\* The nearest stops around the automatic stop i that have a known position.
Lo(i) == CHOOSE l \in 1..i : Known[l].some /\ \A m \in (l + 1)..i : ~Known[m].some

Hi(i) ==
    CHOOSE h \in i..Len(stops) : Known[h].some /\ \A m \in i..(h - 1) : ~Known[m].some

KnownSorted ==
    \A a, b \in 1..Len(stops) :
        (a < b /\ Known[a].some /\ Known[b].some) => Known[a].v <= Known[b].v

EndsExplicit ==
    /\ Len(stops) >= 2
    /\ stops[1].position.some
    /\ stops[Len(stops)].position.some
    /\ \A i \in 2..Len(stops) - 1 : ~stops[i].position.some

\* C6: automatic stops are spaced evenly between the known positions around
\* them: in a run of n automatic stops between p_lo and p_hi the k-th (from
\* 0) is assigned p_lo + (p_hi - p_lo) * (k + 1) / (n + 1), and keeps that
\* position in the output when the known positions are in order.  When the
\* first and last stops are explicit and the others automatic, the output is
\* evenly spaced and does not decrease.  A list of automatic stops only spans
\* 0 to the extent (TAU for a conic gradient).
C6_EvenSpacing ==
    Returned("normalize") =>
        /\ \A i \in 1..Len(stops) : IsAuto(i) =>
              LET n == Hi(i) - Lo(i) - 1
                  k == i - Lo(i) - 1
                  at == Known[Lo(i)].v * (n + 1)
                            + (Known[Hi(i)].v - Known[Lo(i)].v) * (k + 1)
              IN  /\ Assigned[i].v * (n + 1) = at
                  /\ KnownSorted => ret[i].position * (n + 1) = at
        /\ EndsExplicit =>
              /\ \A i \in 1..Len(ret) - 1 : ret[i].position <= ret[i + 1].position
              /\ \A i \in 1..Len(ret) - 2 :
                    ret[i + 1].position - ret[i].position
                        = ret[i + 2].position - ret[i + 1].position
              /\ stops[1].position.v <= stops[Len(stops)].position.v =>
                    \A i \in 1..Len(ret) :
                        ret[i].position * (Len(ret) - 1)
                            = stops[1].position.v * (Len(ret) - 1)
                                + (stops[Len(ret)].position.v - stops[1].position.v) * (i - 1)
        /\ (Len(stops) >= 2 /\ \A i \in 1..Len(stops) : ~stops[i].position.some) =>
              \A i \in 1..Len(ret) :
                  ret[i].position * (Len(ret) - 1) = extent * (i - 1)

\* Two automatic stops between explicit stops at 0 and 1 grid unit: they
\* land on the thirds.
C6_Witness ==
    /\ Returned("normalize")
    /\ Len(stops) = 4
    /\ stops[1].position = Some(0)
    /\ stops[2].position = None
    /\ stops[3].position = None
    /\ stops[4].position = Some(Unit)
    /\ 3 * ret[2].position = Unit
    /\ 3 * ret[3].position = 2 * Unit
    /\ ret[2].position > 0

\* C7: a pixel length Px(v), as a Position offset or as the radius of a
\* Circle or an Ellipse, resolves to v * scale_factor, whatever the size and
\* the target size.
C7_PxScaled ==
    /\ Returned("Position::resolve") =>
          /\ self.x.kind = "Px" =>
                Offset2(ret.x, physical_size.x, self.anchor.x)
                    = 2 * Dir(self.anchor.x) * self.x.v * scale_factor
          /\ self.y.kind = "Px" =>
                Offset2(ret.y, physical_size.y, self.anchor.y)
                    = 2 * Dir(self.anchor.y) * self.y.v * scale_factor
    /\ (Returned("RadialGradientShape::resolve") /\ self.shape = "Circle"
            /\ self.radius.kind = "Px") =>
          ret = Vec2_splat(self.radius.v * scale_factor)
    /\ (Returned("RadialGradientShape::resolve") /\ self.shape = "Ellipse") =>
          /\ self.x.kind = "Px" => ret.x = self.x.v * scale_factor
          /\ self.y.kind = "Px" => ret.y = self.y.v * scale_factor

\* A circle of radius 1 px at scale 2, in an element of no size.
C7_Witness ==
    /\ Returned("RadialGradientShape::resolve")
    /\ self = Circle(Px(1))
    /\ scale_factor = 2
    /\ physical_size = Vec2(0, 0)
    /\ physical_target_size = Vec2(1, 1)
    /\ ret = Vec2(2, 2)

\* C8: a percentage offset of a Position resolves to that percentage of the
\* element's physical size along the same axis; it is not multiplied by the
\* scale factor and does not depend on the target size.
C8_PercentOfSize ==
    Returned("Position::resolve") =>
        /\ self.x.kind = "Percent" =>
              100 * Offset2(ret.x, physical_size.x, self.anchor.x)
                  = 2 * Dir(self.anchor.x) * self.x.v * physical_size.x
        /\ self.y.kind = "Percent" =>
              100 * Offset2(ret.y, physical_size.y, self.anchor.y)
                  = 2 * Dir(self.anchor.y) * self.y.v * physical_size.y

\* 50% offsets from the top-left corner of a 4 x 2 element at scale 2.
C8_Witness ==
    /\ Returned("Position::resolve")
    /\ self = [anchor |-> Vec2(-1, -1), x |-> Percent(50), y |-> Percent(50)]
    /\ scale_factor = 2
    /\ physical_size = Vec2(4, 2)
    /\ ret = Vec2(0, 0)

SideDistances2 ==
    { abs(-physical_size.x - 2 * position.x), abs(physical_size.x - 2 * position.x),
      abs(-physical_size.y - 2 * position.y), abs(physical_size.y - 2 * position.y) }

\* C10: ClosestSide and FarthestSide resolve to a circle, whose radius is the
\* least, respectively the greatest, of the four distances |-half - p| and
\* |half - p| taken on both axes, half being physical_size / 2.
C10_SideCircle ==
    /\ (Returned("RadialGradientShape::resolve") /\ self = ClosestSide) =>
          /\ ret.x = ret.y
          /\ 2 * ret.x \in SideDistances2
          /\ \A e \in SideDistances2 : 2 * ret.x <= e
    /\ (Returned("RadialGradientShape::resolve") /\ self = FarthestSide) =>
          /\ ret.x = ret.y
          /\ 2 * ret.x \in SideDistances2
          /\ \A e \in SideDistances2 : 2 * ret.x >= e

\* A centre one pixel right of the middle of a 4 x 4 element: the closest
\* side is one pixel away.
C10_Witness ==
    /\ Returned("RadialGradientShape::resolve")
    /\ self = ClosestSide
    /\ position = Vec2(1, 0)
    /\ physical_size = Vec2(4, 4)
    /\ ret = Vec2(1, 1)

\* The radii of the shape of this state for another centre and another size.
ResolveAt(c, size) ==
    RadialGradientShape_resolve(self, c, scale_factor, size, physical_target_size)

\* C11: ClosestCorner and FarthestCorner resolve each axis on its own: the x
\* radius is the lesser, respectively the greater, of |-half.x - p.x| and
\* |half.x - p.x|, the y radius the same on y; the x radius stays the same
\* under any change of position.y and physical_size.y, and the y radius
\* under any change of position.x and physical_size.x (each is the one
\* obtained with the other axis' centre and size set to 0).
C11_CornerPerAxis ==
    /\ (Returned("RadialGradientShape::resolve") /\ self = ClosestCorner) =>
          /\ 2 * ret.x = min(abs(-physical_size.x - 2 * position.x),
                             abs(physical_size.x - 2 * position.x))
          /\ 2 * ret.y = min(abs(-physical_size.y - 2 * position.y),
                             abs(physical_size.y - 2 * position.y))
    /\ (Returned("RadialGradientShape::resolve") /\ self = FarthestCorner) =>
          /\ 2 * ret.x = max(abs(-physical_size.x - 2 * position.x),
                             abs(physical_size.x - 2 * position.x))
          /\ 2 * ret.y = max(abs(-physical_size.y - 2 * position.y),
                             abs(physical_size.y - 2 * position.y))
    /\ (Returned("RadialGradientShape::resolve")
            /\ self \in {ClosestCorner, FarthestCorner}) =>
          /\ ResolveAt(Vec2(position.x, 0), Vec2(physical_size.x, 0)).x = ret.x
          /\ ResolveAt(Vec2(0, position.y), Vec2(0, physical_size.y)).y = ret.y

\* A centre one pixel right of the middle of a 4 x 2 element: the radii of
\* ClosestCorner differ, and neither is their common minimum or a diagonal.
C11_Witness ==
    /\ Returned("RadialGradientShape::resolve")
    /\ self = ClosestCorner
    /\ position = Vec2(1, 1)
    /\ physical_size = Vec2(4, 2)
    /\ ret = Vec2(1, 0)

\* What a radius resolves to against the base it is given: the pixels times
\* the scale factor, the percentage of the base, 0 when it is automatic.
IsRadius(r, val, base) ==
    CASE val.kind = "Px" -> r = val.v * scale_factor
      [] val.kind = "Percent" -> 100 * r = val.v * base
      [] OTHER -> r = 0

\* C12: the explicit shapes do not read the position (every centre gives
\* what the centre (0, 0) gives): Circle(r) resolves to
\* two equal radii, r resolved against the element's width; Ellipse(rx, ry)
\* to rx resolved against the width and ry against the height, each without
\* the other.  So for a percentage r other than 0 and an element that is not
\* square, Circle(r) and Ellipse(r, r) differ.
C12_ExplicitShapes ==
    /\ (Returned("RadialGradientShape::resolve") /\ self.shape = "Circle") =>
          /\ ret.x = ret.y
          /\ IsRadius(ret.x, self.radius, physical_size.x)
          /\ ResolveAt(Vec2(0, 0), physical_size) = ret
          /\ (self.radius.kind = "Percent" /\ self.radius.v # 0
                  /\ physical_size.x # physical_size.y) =>
                RadialGradientShape_resolve(Ellipse(self.radius, self.radius),
                    position, scale_factor, physical_size, physical_target_size) # ret
    /\ (Returned("RadialGradientShape::resolve") /\ self.shape = "Ellipse") =>
          /\ IsRadius(ret.x, self.x, physical_size.x)
          /\ IsRadius(ret.y, self.y, physical_size.y)
          /\ ResolveAt(Vec2(0, 0), physical_size) = ret

\* A circle of 50% in a 4 x 2 element, centred off the middle: radius 2 on
\* both axes, where the ellipse of 50% by 50% has radii 2 and 1.
C12_Witness ==
    /\ Returned("RadialGradientShape::resolve")
    /\ self = Circle(Percent(50))
    /\ position = Vec2(1, -1)
    /\ physical_size = Vec2(4, 2)
    /\ ret = Vec2(2, 2)
    /\ RadialGradientShape_resolve(Ellipse(Percent(50), Percent(50)), position,
           scale_factor, physical_size, physical_target_size) = Vec2(2, 1)

\* C13: for the four implicit shapes both radii are at least 0, for every
\* centre (outside the element too) and every size; and the radius of
\* ClosestSide is 0 exactly when the centre lies on the line of one of the
\* four edges, |p| = half on some axis.
C13_NonNegative ==
    /\ (Returned("RadialGradientShape::resolve") /\ self \in ImplicitShapes) =>
          ret.x >= 0 /\ ret.y >= 0
    /\ (Returned("RadialGradientShape::resolve") /\ self = ClosestSide) =>
          (ret.x = 0 <=> \/ 2 * abs(position.x) = physical_size.x
                         \/ 2 * abs(position.y) = physical_size.y)

\* A centre on the line of the right edge, above the 2 x 2 element and so
\* outside it.
C13_Witness ==
    /\ Returned("RadialGradientShape::resolve")
    /\ self = ClosestSide
    /\ position = Vec2(1, 2)
    /\ physical_size = Vec2(2, 2)
    /\ ret = Vec2(0, 0)

====
